---- MODULE Spec2Model ----
(***************************************************************************)
(* Model of DependencyVisualizer (src/dependency_viz.py): the version      *)
(* resolver get_latest_version, the dependency fetcher                     *)
(* fetch_dependencies_for_package, the depth-1 graph builder               *)
(* build_dependency_graph and the batch loop run_three_examples.           *)
(*                                                                         *)
(* Python strings whose contents matter (package names, the filter) are    *)
(* tuples of one-character strings, so that the substring test `in` is     *)
(* computed.  Versions are opaque tokens; None is the token NoneVal.       *)
(* The registry is the environment: every request draws its response      *)
(* from a bounded set.                                                      *)
(***************************************************************************)
EXTENDS Integers, Sequences, FiniteSets, TLC

VARIABLES
    args,            \* self.args: [package, version, filter]
    deps,            \* self.deps
    all_deps_graph,  \* self.all_deps_graph
    visited,         \* self.visited
    version_cache,   \* self.version_cache
    pc,              \* position of run / build_dependency_graph
    example,         \* 0: the analysis of run(); 1..3: iteration of run_three_examples
    original_package,\* local of run_three_examples
    direct_deps,     \* local of build_dependency_graph
    idx,             \* position of the loop `for dep in direct_deps[:3]` (1-based)
    stack,           \* activation records of fetch_dependencies_for_package
    ret,             \* value returned by the call that finished last
    calls,           \* history: the fetcher calls build_dependency_graph made in this build
    trace,           \* history: resolver calls and registry requests of the fetcher call in progress
    nreq,            \* history: registry requests issued in this build
    registry,        \* the environment: whether answers repeat, and the answers given so far
    snapshot         \* history: root, version and graph of the previous build

vars == << args, deps, all_deps_graph, visited, version_cache, pc, example,
           original_package, direct_deps, idx, stack, ret, calls, trace, nreq,
           registry, snapshot >>

----------------------------------------------------------------------------
(* Strings *)

serde == << "s", "e", "r", "d", "e" >>
tokio == << "t", "o", "k", "i", "o" >>
clap  == << "c", "l", "a", "p" >>
mio   == << "m", "i", "o" >>
hyper == << "h", "y", "p", "e", "r" >>

\* The package-name universe of the model.
Names == { serde, tokio, clap, mio, hyper }

EmptyStr == << >>

\* The values --filter takes in the model: the default "" and "er"
\* (contained in serde and in hyper).
Filters == { EmptyStr, << "e", "r" >> }

\* Python None and the version tokens.
NoneVal == "None"
Latest == "latest"

\* Values the registry reports as crate.newest_version ("" is a falsy string).
NewestVersions == { "1.0", "4.0", "" }

\* Values --version takes in the model.
RequestedVersions == { Latest, "", "1.0" }

\* Values --package takes in the model.
Roots == { serde, mio }

\* Python `needle in haystack` on strings.
Contains(needle, haystack) ==
    \E i \in 1..(Len(haystack) - Len(needle) + 1) :
        SubSeq(haystack, i, i + Len(needle) - 1) = needle

\* Python truthiness of a version value (None and "" are falsy).
TruthyVersion(v) == v # NoneVal /\ v # ""

----------------------------------------------------------------------------
(* The registry (requests.get on the two crates.io endpoints) *)

MaxDeps == 4

\* Status of a request that raised instead of answering (timeout, DNS, reset).
NetworkError == 0

\* Dependency listings of the registry; Listing(base, n) is the first n entries
\* of base repeated cyclically.  ListingA is served in every length up to
\* MaxDeps (duplicates among the first entries), ListingB in length MaxDeps
\* (distinct names at the first entries).
Listing(base, n) == [ j \in 1..n |-> base[((j - 1) % Len(base)) + 1] ]

ListingA == << tokio, tokio, serde, mio, clap >>
ListingB == << clap, hyper, mio, tokio >>

\* The crate_id sequences a 200 answer of the dependency endpoint carries.
Bodies == { Listing(ListingA, n) : n \in 0..MaxDeps } \cup { Listing(ListingB, MaxDeps) }

\* A response: status, whether the body parses into the expected JSON shape,
\* and the field the endpoint delivers (newest for metadata, body for dependencies).
Response(status, ok, newest, body) ==
    [ status |-> status, ok |-> ok, newest |-> newest, body |-> body ]

\* GET /api/v1/crates/{package}
MetaResponses ==
    { Response(200, TRUE, v, << >>) : v \in NewestVersions }
        \cup { Response(200, FALSE, "", << >>),
               Response(404, TRUE, "", << >>),
               Response(NetworkError, TRUE, "", << >>) }

\* GET /api/v1/crates/{package}/{version}/dependencies
DepsResponses ==
    { Response(200, TRUE, "", b) : b \in Bodies }
        \cup { Response(200, FALSE, "", << >>),
               Response(404, TRUE, "", << >>),
               Response(500, TRUE, "", << >>),
               Response(NetworkError, TRUE, "", << >>) }

\* History records.
ResolveEvent(package, result, hit) ==
    [ ev |-> "resolve", package |-> package, version |-> result, hit |-> hit,
      status |-> 0, ok |-> TRUE, body |-> << >> ]

MetaEvent(package, resp) ==
    [ ev |-> "meta", package |-> package, version |-> resp.newest, hit |-> FALSE,
      status |-> resp.status, ok |-> resp.ok, body |-> << >> ]

DepsEvent(package, version, resp) ==
    [ ev |-> "deps", package |-> package, version |-> version, hit |-> FALSE,
      status |-> resp.status, ok |-> resp.ok, body |-> resp.body ]

\* A registry that answers an identical request identically keeps the answers
\* it has given (as the history records of the requests); a free registry
\* keeps nothing and may answer every request anew.
FreeRegistry == [ scripted |-> FALSE, memo |-> {} ]
ScriptedRegistry == [ scripted |-> TRUE, memo |-> {} ]

\* The answers the registry may give to GET /api/v1/crates/{package}.
MetaAnswers(package) ==
    LET given == { e \in registry.memo : e.ev = "meta" /\ e.package = package }
    IN  IF given = {} THEN MetaResponses
        ELSE { Response(e.status, e.ok, e.version, << >>) : e \in given }

\* The answers the registry may give to
\* GET /api/v1/crates/{package}/{version}/dependencies.
DepsAnswers(package, version) ==
    LET given == { e \in registry.memo :
                     e.ev = "deps" /\ e.package = package /\ e.version = version }
    IN  IF given = {} THEN DepsResponses
        ELSE { Response(e.status, e.ok, "", e.body) : e \in given }

\* The registry after the requests among events.
Answered(events) ==
    IF registry.scripted
    THEN [ registry EXCEPT !.memo =
             @ \cup { events[i] : i \in { j \in 1..Len(events) :
                                            events[j].ev \in { "meta", "deps" } } } ]
    ELSE registry

----------------------------------------------------------------------------
(* get_latest_version *)

\* Whether the try block of get_latest_version reaches `return latest`:
\* status 200 and a body holding crate.newest_version.
MetaDelivers(resp) == resp.status = 200 /\ resp.ok

\* get_latest_version without the lookup of lines 41-42: every call asks the
\* registry.
get_latest_version_no_lookup(cache, package, resp) ==
    IF MetaDelivers(resp)
    THEN [ cache  |-> [ p \in DOMAIN cache \cup { package } |->
                          IF p = package THEN resp.newest ELSE cache[p] ],
           result |-> resp.newest,
           events |-> << MetaEvent(package, resp),
                         ResolveEvent(package, resp.newest, FALSE) >> ]
    ELSE [ cache  |-> cache,
           result |-> NoneVal,
           events |-> << MetaEvent(package, resp),
                         ResolveEvent(package, NoneVal, FALSE) >> ]

\* get_latest_version dropping the cache when a request fails.
get_latest_version_clears_on_failure(cache, package, resp) ==
    IF package \in DOMAIN cache
    THEN [ cache  |-> cache,
           result |-> cache[package],
           events |-> << ResolveEvent(package, cache[package], TRUE) >> ]
    ELSE IF MetaDelivers(resp)
    THEN [ cache  |-> [ p \in DOMAIN cache \cup { package } |->
                          IF p = package THEN resp.newest ELSE cache[p] ],
           result |-> resp.newest,
           events |-> << MetaEvent(package, resp),
                         ResolveEvent(package, resp.newest, FALSE) >> ]
    ELSE [ cache  |-> [ p \in {} |-> "" ],
           result |-> NoneVal,
           events |-> << MetaEvent(package, resp),
                         ResolveEvent(package, NoneVal, FALSE) >> ]

\* get_latest_version remembering a failure: None is stored for the package.
get_latest_version_caches_failure(cache, package, resp) ==
    IF package \in DOMAIN cache
    THEN [ cache  |-> cache,
           result |-> cache[package],
           events |-> << ResolveEvent(package, cache[package], TRUE) >> ]
    ELSE IF MetaDelivers(resp)
    THEN [ cache  |-> [ p \in DOMAIN cache \cup { package } |->
                          IF p = package THEN resp.newest ELSE cache[p] ],
           result |-> resp.newest,
           events |-> << MetaEvent(package, resp),
                         ResolveEvent(package, resp.newest, FALSE) >> ]
    ELSE [ cache  |-> [ p \in DOMAIN cache \cup { package } |->
                          IF p = package THEN NoneVal ELSE cache[p] ],
           result |-> NoneVal,
           events |-> << MetaEvent(package, resp),
                         ResolveEvent(package, NoneVal, FALSE) >> ]

\* get_latest_version(package) against cache `cache`, the registry answering
\* resp if asked: the cache afterwards, the value returned, and the history
\* of the call (the request, when one was made, then the call itself).
get_latest_version(cache, package, resp) ==
    IF package \in DOMAIN cache
    THEN [ cache  |-> cache,
           result |-> cache[package],
           events |-> << ResolveEvent(package, cache[package], TRUE) >> ]
    ELSE IF MetaDelivers(resp)
    THEN [ cache  |-> [ p \in DOMAIN cache \cup { package } |->
                          IF p = package THEN resp.newest ELSE cache[p] ],
           result |-> resp.newest,
           events |-> << MetaEvent(package, resp),
                         ResolveEvent(package, resp.newest, FALSE) >> ]
    ELSE [ cache  |-> cache,
           result |-> NoneVal,
           events |-> << MetaEvent(package, resp),
                         ResolveEvent(package, NoneVal, FALSE) >> ]

----------------------------------------------------------------------------
(* fetch_dependencies_for_package *)

\* The filter test left out: no name is excluded.
Excluded_never(filter, name) == FALSE

\* `self.args.filter and self.args.filter in name`
Excluded(filter, name) == filter # EmptyStr /\ Contains(filter, name)

\* The loop with a test for names that start with the filter instead of
\* containing it.
FilterDeps_prefix_test(filter, body) ==
    SelectSeq(body, LAMBDA d : ~(filter # EmptyStr /\ Len(filter) <= Len(d)
                                    /\ SubSeq(d, 1, Len(filter)) = filter))

\* The loop over data['dependencies']: the names the filter does not exclude,
\* in the registry's order.
FilterDeps(filter, body) == SelectSeq(body, LAMBDA d : ~Excluded(filter, d))

\* How a call, or the body of a try block, ends.
Value(v) == [ kind |-> "value", value |-> v ]
Raised   == [ kind |-> "raise", value |-> << >> ]
NoReturn == [ kind |-> "none", value |-> << >> ]

\* The try block of fetch_dependencies_for_package for a response other than
\* 404: requests.get may raise, response.json() and the field accesses raise
\* on a body of another shape.
fetch_try(filter, resp) ==
    IF resp.status = NetworkError THEN Raised
    ELSE IF resp.status = 200
         THEN IF resp.ok THEN Value(FilterDeps(filter, resp.body)) ELSE Raised
         ELSE Value(<< >>)

\* fetch_except without the handler: the exception leaves the call.
fetch_except_uncaught(outcome) == outcome

\* `except Exception as e: ... return []`
fetch_except(outcome) == IF outcome.kind = "raise" THEN Value(<< >>) ELSE outcome

\* The test of line 93 without `latest != actual_version`.
ShouldRetry_always(latest, actual_version) == TruthyVersion(latest)

\* `if latest and latest != actual_version`
ShouldRetry(latest, actual_version) ==
    TruthyVersion(latest) /\ latest # actual_version

Frame(package, version) ==
    [ package |-> package, version |-> version, actual |-> NoneVal, at |-> "enter" ]

\* The retry of line 95 made with the version that was just answered 404.
RetryFrame_same_version(f, latest) == Frame(f.package, f.actual)

\* Line 95: the recursive call `fetch_dependencies_for_package(package, latest)`.
RetryFrame(f, latest) == Frame(f.package, latest)

Top == stack[Len(stack)]
Pop == SubSeq(stack, 1, Len(stack) - 1)

\* Registry requests among history records.
Requests(events) == Len(SelectSeq(events, LAMBDA e : e.ev \in { "meta", "deps" }))

\* The frame on top returns outcome, having added events to the history.
FetchEnds(outcome, cache, events) ==
    /\ stack' = Pop
    /\ ret' = outcome
    /\ version_cache' = cache
    /\ trace' = trace \o events
    /\ nreq' = nreq + Requests(events)
    /\ registry' = Answered(events)

\* The frame on top goes on as the frames given: itself at its next position,
\* or itself waiting and above it the frame of the call it makes.
FetchGoesOn(frames, cache, events) ==
    /\ stack' = Pop \o frames
    /\ ret' = NoReturn
    /\ version_cache' = cache
    /\ trace' = trace \o events
    /\ nreq' = nreq + Requests(events)
    /\ registry' = Answered(events)

\* Lines 62-76: the filter test on the package and the choice of actual_version.
FetchEnter ==
    /\ stack # << >>
    /\ Top.at = "enter"
    /\ \E resp \in MetaAnswers(Top.package) :
         LET f == Top
             g == get_latest_version(version_cache, f.package, resp)
         IN  IF Excluded(args.filter, f.package)
             THEN FetchEnds(Value(<< >>), version_cache, << >>)
             ELSE IF f.version = NoneVal \/ f.version = Latest
             THEN IF g.result = NoneVal \/ ~TruthyVersion(g.result)
                  THEN FetchEnds(Value(<< >>), g.cache, g.events)
                  ELSE FetchGoesOn(<< [ f EXCEPT !.actual = g.result, !.at = "request" ] >>,
                                   g.cache, g.events)
             ELSE IF ~TruthyVersion(f.version)
                  THEN FetchEnds(Value(<< >>), version_cache, << >>)
                  ELSE FetchGoesOn(<< [ f EXCEPT !.actual = f.version, !.at = "request" ] >>,
                                   version_cache, << >>)
    /\ UNCHANGED << args, deps, all_deps_graph, visited, pc, example,
                    original_package, direct_deps, idx, calls, snapshot >>

\* Lines 78-102: the request to the dependency endpoint and what follows it,
\* up to the return or to the recursive call of line 95.
FetchRequest ==
    /\ stack # << >>
    /\ Top.at = "request"
    /\ \E resp \in DepsAnswers(Top.package, Top.actual), mresp \in MetaAnswers(Top.package) :
         LET f == Top
             e == DepsEvent(f.package, f.actual, resp)
             g == get_latest_version(version_cache, f.package, mresp)
         IN  IF resp.status = 404
             THEN IF ShouldRetry(g.result, f.actual)
                  THEN FetchGoesOn(<< [ f EXCEPT !.at = "retry" ],
                                      RetryFrame(f, g.result) >>,
                                   g.cache, << e >> \o g.events)
                  ELSE FetchEnds(Value(<< >>), g.cache, << e >> \o g.events)
             ELSE FetchEnds(fetch_except(fetch_try(args.filter, resp)),
                            version_cache, << e >>)
    /\ UNCHANGED << args, deps, all_deps_graph, visited, pc, example,
                    original_package, direct_deps, idx, calls, snapshot >>

\* Line 95: `return self.fetch_dependencies_for_package(package, latest)`,
\* inside the try block.
FetchReturn ==
    /\ stack # << >>
    /\ Top.at = "retry"
    /\ ret.kind # "none"
    /\ FetchEnds(fetch_except(ret), version_cache, << >>)
    /\ UNCHANGED << args, deps, all_deps_graph, visited, pc, example,
                    original_package, direct_deps, idx, calls, snapshot >>

----------------------------------------------------------------------------
(* build_dependency_graph *)

\* `direct_deps[:3]`
ExpandLimit == 3

\* The loop over direct_deps without the slice.
FirstDeps_no_slice(ds) == ds

FirstDeps(ds) == SubSeq(ds, 1, IF Len(ds) < ExpandLimit THEN Len(ds) ELSE ExpandLimit)

EmptyMap == [ p \in {} |-> << >> ]

\* `graph[key] = value` on a dict.
Store(graph, key, value) ==
    [ p \in DOMAIN graph \cup { key } |-> IF p = key THEN value ELSE graph[p] ]

Call(package, version) == [ package |-> package, version |-> version ]

\* The loop without `self.visited.add(dep)`.
Visit_forgotten(seen, dep) == seen

\* Line 122: `self.visited.add(dep)`
Visit(seen, dep) == seen \cup { dep }

\* The graph of the empty case left without its root key.
EmptyGraph_no_root(root) == EmptyMap

\* Lines 113-114: `{self.args.package: []}`
EmptyGraph(root) == Store(EmptyMap, root, << >>)

\* Line 109: the call that fetches the root's direct dependencies.
build_call ==
    /\ pc = "build"
    /\ stack' = << Frame(args.package, args.version) >>
    /\ ret' = NoReturn
    /\ calls' = << Call(args.package, args.version) >>
    /\ trace' = << >>
    /\ nreq' = 0
    /\ pc' = "root_fetch"
    /\ UNCHANGED << args, deps, all_deps_graph, visited, version_cache, example,
                    original_package, direct_deps, idx >>
    /\ UNCHANGED << registry, snapshot >>

\* Lines 109-118: the root's fetch has returned.  An exception leaving the
\* fetcher would leave build_dependency_graph too (pc "aborted").
build_root ==
    /\ pc = "root_fetch"
    /\ stack = << >>
    /\ ret.kind # "none"
    /\ IF ret.kind = "raise"
       THEN /\ pc' = "aborted"
            /\ UNCHANGED << deps, all_deps_graph, direct_deps, idx >>
       ELSE /\ direct_deps' = ret.value
            /\ IF ret.value = << >>
               THEN /\ deps' = EmptyGraph(args.package)
                    /\ all_deps_graph' = EmptyGraph(args.package)
                    /\ pc' = "done"
                    /\ idx' = idx
               ELSE /\ deps' = Store(EmptyMap, args.package, ret.value)
                    /\ all_deps_graph' = Store(EmptyMap, args.package, ret.value)
                    /\ pc' = "loop"
                    /\ idx' = 1
    /\ ret' = NoReturn
    /\ trace' = << >>
    /\ UNCHANGED << args, visited, version_cache, example, original_package,
                    stack, calls, nreq >>
    /\ UNCHANGED << registry, snapshot >>

\* Lines 120-123 and 127: one turn of `for dep in direct_deps[:3]` up to the
\* call that fetches dep's dependencies, or the end of the loop.
build_loop ==
    /\ pc = "loop"
    /\ IF idx > Len(FirstDeps(direct_deps))
       THEN /\ pc' = "done"
            /\ UNCHANGED << visited, stack, calls, trace, idx >>
       ELSE LET dep == FirstDeps(direct_deps)[idx]
            IN  IF dep \notin visited
                THEN /\ visited' = Visit(visited, dep)
                     /\ stack' = << Frame(dep, Latest) >>
                     /\ calls' = Append(calls, Call(dep, Latest))
                     /\ trace' = << >>
                     /\ pc' = "sub_fetch"
                     /\ idx' = idx
                ELSE /\ idx' = idx + 1
                     /\ pc' = "loop"
                     /\ UNCHANGED << visited, stack, calls, trace >>
    /\ UNCHANGED << args, deps, all_deps_graph, version_cache, example,
                    original_package, direct_deps, ret, nreq >>
    /\ UNCHANGED << registry, snapshot >>

\* Lines 123-125: dep's fetch has returned.
build_sub ==
    /\ pc = "sub_fetch"
    /\ stack = << >>
    /\ ret.kind # "none"
    /\ IF ret.kind = "raise"
       THEN /\ pc' = "aborted"
            /\ UNCHANGED << all_deps_graph, idx >>
       ELSE /\ all_deps_graph' =
                IF ret.value # << >>
                THEN Store(all_deps_graph, FirstDeps(direct_deps)[idx], ret.value)
                ELSE all_deps_graph
            /\ idx' = idx + 1
            /\ pc' = "loop"
    /\ ret' = NoReturn
    /\ trace' = << >>
    /\ UNCHANGED << args, deps, visited, version_cache, example, original_package,
                    direct_deps, stack, calls, nreq >>
    /\ UNCHANGED << registry, snapshot >>

----------------------------------------------------------------------------
(* run and run_three_examples *)

examples ==
    << [ package |-> serde, version |-> Latest ],
       [ package |-> tokio, version |-> "1.0" ],
       [ package |-> clap,  version |-> "4.0" ] >>

NoSnapshot ==
    [ package |-> EmptyStr, version |-> NoneVal, graph |-> EmptyMap, calls |-> << >> ]

\* State after DependencyVisualizer() (lines 11-16); args is still None.
Init ==
    /\ args = [ package |-> EmptyStr, version |-> NoneVal, filter |-> EmptyStr ]
    /\ deps = EmptyMap
    /\ all_deps_graph = EmptyMap
    /\ visited = {}
    /\ version_cache = EmptyMap
    /\ pc = "init"
    /\ example = 0
    /\ original_package = EmptyStr
    /\ direct_deps = << >>
    /\ idx = 0
    /\ stack = << >>
    /\ ret = NoReturn
    /\ calls = << >>
    /\ trace = << >>
    /\ nreq = 0
    /\ registry = FreeRegistry
    /\ snapshot = NoSnapshot

\* Lines 18-28: the command line sets package, version and filter.
parse_arguments ==
    /\ pc = "init"
    /\ \E p \in Roots, v \in RequestedVersions, f \in Filters :
         args' = [ package |-> p, version |-> v, filter |-> f ]
    /\ pc' = "build"
    /\ UNCHANGED << deps, all_deps_graph, visited, version_cache, example,
                    original_package, direct_deps, idx, stack, ret, calls, trace, nreq >>
    /\ UNCHANGED << registry, snapshot >>

\* The reset without line 266: the visited set of the previous root is kept.
FreshVisited_kept == visited

\* Line 266: `self.visited = set()`
FreshVisited == {}

\* The reset without line 267: the versions cached for the previous root are kept.
FreshCache_kept == version_cache

\* Line 267: `self.version_cache = {}`
FreshCache == EmptyMap

\* Lines 253-267: the next turn of run_three_examples up to the call of
\* build_dependency_graph (the first turn follows choice "2" of run).
run_example ==
    /\ pc = "done"
    /\ example < Len(examples)
    /\ example' = example + 1
    /\ original_package' = IF example = 0 THEN args.package ELSE original_package
    /\ args' = [ args EXCEPT !.package = examples[example + 1].package,
                             !.version = examples[example + 1].version ]
    /\ deps' = EmptyMap
    /\ all_deps_graph' = EmptyMap
    /\ visited' = FreshVisited
    /\ version_cache' = FreshCache
    /\ pc' = "build"
    /\ direct_deps' = << >>
    /\ idx' = 0
    /\ calls' = << >>
    /\ trace' = << >>
    /\ nreq' = 0
    /\ UNCHANGED << stack, ret >>
    /\ snapshot' = IF registry.scripted
                   THEN [ package |-> args.package, version |-> args.version,
                          graph |-> all_deps_graph, calls |-> calls ]
                   ELSE snapshot
    /\ UNCHANGED registry

\* Lines 276-279: run_three_examples restores args.package and returns.
run_examples_end ==
    /\ pc = "done"
    /\ example = Len(examples)
    /\ args' = [ args EXCEPT !.package = original_package ]
    /\ pc' = "finished"
    /\ UNCHANGED << deps, all_deps_graph, visited, version_cache, example,
                    original_package, direct_deps, idx, stack, ret, calls, trace, nreq >>
    /\ UNCHANGED << registry, snapshot >>

\* Lines 292-305: choice "1", the graph goes to generate_graphviz.
run_single ==
    /\ pc = "done"
    /\ example = 0
    /\ pc' = "finished"
    /\ UNCHANGED << args, deps, all_deps_graph, visited, version_cache, example,
                    original_package, direct_deps, idx, stack, ret, calls, trace, nreq >>
    /\ UNCHANGED << registry, snapshot >>

Next ==
    \/ parse_arguments
    \/ build_call
    \/ FetchEnter
    \/ FetchRequest
    \/ FetchReturn
    \/ build_root
    \/ build_loop
    \/ build_sub
    \/ run_example
    \/ run_examples_end
    \/ run_single

Spec == Init /\ [][Next]_vars

TypeOK ==
    /\ pc \in { "api", "init", "build", "root_fetch", "loop", "sub_fetch", "done", "finished", "aborted" }
    /\ example \in 0..Len(examples)
    /\ visited \subseteq Names
    /\ DOMAIN version_cache \subseteq Names
    /\ DOMAIN all_deps_graph \subseteq Names
    /\ ret.kind \in { "none", "value", "raise" }
    /\ Len(stack) <= 2 + Cardinality(Names)

----------------------------------------------------------------------------
(* The analysis of run() and the first example after it, against a registry
   that answers identical requests identically *)

\* State after parse_arguments for the command line the first example
\* repeats: --package serde --version latest, with either filter.
InitRepeat ==
    /\ \E f \in Filters :
         args = [ package |-> examples[1].package, version |-> examples[1].version,
                  filter |-> f ]
    /\ deps = EmptyMap
    /\ all_deps_graph = EmptyMap
    /\ visited = {}
    /\ version_cache = EmptyMap
    /\ pc = "build"
    /\ example = 0
    /\ original_package = EmptyStr
    /\ direct_deps = << >>
    /\ idx = 0
    /\ stack = << >>
    /\ ret = NoReturn
    /\ calls = << >>
    /\ trace = << >>
    /\ nreq = 0
    /\ registry = ScriptedRegistry
    /\ snapshot = NoSnapshot

\* Choice "2" of run and the first turn of run_three_examples (serde, "latest").
run_example_first == example = 0 /\ run_example

\* Every fetcher call here asks for "latest", so the recursive call of line 95
\* (taken only when the resolved version differs from the one asked for) is
\* never made and FetchReturn has nothing to return from.
NextRepeat ==
    \/ build_call
    \/ FetchEnter
    \/ FetchRequest
    \/ build_root
    \/ build_loop
    \/ build_sub
    \/ run_example_first

SpecRepeat == InitRepeat /\ [][NextRepeat]_vars

----------------------------------------------------------------------------
(* The resolver called directly, as a client of the class calls it *)

MaxCalls == 3

ResolveCalls(events) == Len(SelectSeq(events, LAMBDA e : e.ev = "resolve"))

InitResolver ==
    /\ \E f \in Filters :
         args = [ package |-> serde, version |-> Latest, filter |-> f ]
    /\ deps = EmptyMap
    /\ all_deps_graph = EmptyMap
    /\ visited = {}
    /\ version_cache = EmptyMap
    /\ pc = "api"
    /\ example = 0
    /\ original_package = EmptyStr
    /\ direct_deps = << >>
    /\ idx = 0
    /\ stack = << >>
    /\ ret = NoReturn
    /\ calls = << >>
    /\ trace = << >>
    /\ nreq = 0
    /\ registry = FreeRegistry
    /\ snapshot = NoSnapshot

\* One call get_latest_version(p); trace keeps the history of the run.
api_get_latest_version ==
    /\ pc = "api"
    /\ ResolveCalls(trace) < MaxCalls
    /\ \E p \in Names, resp \in MetaResponses :
         LET g == get_latest_version(version_cache, p, resp)
         IN  /\ version_cache' = g.cache
             /\ trace' = trace \o g.events
             /\ nreq' = nreq + Requests(g.events)
    /\ UNCHANGED << args, deps, all_deps_graph, visited, pc, example,
                    original_package, direct_deps, idx, stack, ret, calls >>
    /\ UNCHANGED << registry, snapshot >>

\* Lines 263-267: the state reset that starts another run.
api_reset ==
    /\ pc = "api"
    /\ trace # << >>
    /\ deps' = EmptyMap
    /\ all_deps_graph' = EmptyMap
    /\ visited' = {}
    /\ version_cache' = EmptyMap
    /\ trace' = << >>
    /\ nreq' = 0
    /\ UNCHANGED << args, pc, example, original_package, direct_deps, idx,
                    stack, ret, calls >>
    /\ UNCHANGED << registry, snapshot >>

NextResolver == api_get_latest_version \/ api_reset

SpecResolver == InitResolver /\ [][NextResolver]_vars

----------------------------------------------------------------------------
(* The fetcher called directly, as a client of the class calls it *)

\* The versions a caller passes: absent (the default None), the sentinel,
\* the empty string and an explicit version.
CallerVersions == { NoneVal, Latest, "", "1.0" }

InitFetcher ==
    /\ \E f \in Filters :
         args = [ package |-> serde, version |-> Latest, filter |-> f ]
    /\ deps = EmptyMap
    /\ all_deps_graph = EmptyMap
    /\ visited = {}
    /\ version_cache = EmptyMap
    /\ pc = "api"
    /\ example = 0
    /\ original_package = EmptyStr
    /\ direct_deps = << >>
    /\ idx = 0
    /\ stack = << >>
    /\ ret = NoReturn
    /\ calls = << >>
    /\ trace = << >>
    /\ nreq = 0
    /\ registry = FreeRegistry
    /\ snapshot = NoSnapshot

\* A call fetch_dependencies_for_package(p, v) (line 60); calls, trace and nreq
\* keep the history of this call, the cache is what earlier calls left.
api_fetch ==
    /\ pc = "api"
    /\ stack = << >>
    /\ ret.kind = "none"
    /\ \E p \in Roots, v \in CallerVersions :
         /\ stack' = << Frame(p, v) >>
         /\ calls' = << Call(p, v) >>
    /\ trace' = << >>
    /\ nreq' = 0
    /\ UNCHANGED << args, deps, all_deps_graph, visited, version_cache, pc, example,
                    original_package, direct_deps, idx, ret, registry, snapshot >>

\* The caller takes the result.
api_fetch_returns ==
    /\ pc = "api"
    /\ stack = << >>
    /\ ret.kind # "none"
    /\ ret' = NoReturn
    /\ trace' = << >>
    /\ UNCHANGED << args, deps, all_deps_graph, visited, version_cache, pc, example,
                    original_package, direct_deps, idx, stack, calls, nreq,
                    registry, snapshot >>

NextFetcher ==
    \/ api_fetch
    \/ FetchEnter
    \/ FetchRequest
    \/ FetchReturn
    \/ api_fetch_returns

SpecFetcher == InitFetcher /\ [][NextFetcher]_vars

\* A call in progress keeps running: the interpreter executes the next
\* statement, and every request returns or raises (timeout=10, lines 46, 79).
SpecFetcherFair ==
    SpecFetcher /\ WF_vars(FetchEnter \/ FetchRequest \/ FetchReturn)

----------------------------------------------------------------------------
(* Properties *)

IsRequest(e) == e.ev \in { "meta", "deps" }
RequestsOf(events) == SelectSeq(events, IsRequest)
DepsRequestsOf(events) == SelectSeq(events, LAMBDA e : e.ev = "deps")
MetaRequestsOf(events, p) == SelectSeq(events, LAMBDA e : e.ev = "meta" /\ e.package = p)
Last(seq) == seq[Len(seq)]

\* A request that did not deliver: not 200, raised, or a body of another shape.
FailedRequest(e) == IsRequest(e) /\ ~(e.status = 200 /\ e.ok)

\* A call of the fetcher made by build_dependency_graph has just returned.
CallReturned == stack = << >> /\ ret.kind # "none"

Building == pc \in { "build", "root_fetch", "loop", "sub_fetch" }

\* C1 (state part): no exception leaves the fetcher or the builder; every
\* returned value is a sequence of names, empty when the last registry request
\* of the call failed; a build in progress can always take its next step, and
\* a finished build has the root package as a key of the graph.
C1_State ==
    /\ pc # "aborted"
    /\ ret.kind # "raise"
    /\ ret.kind = "value" =>
         /\ \A i \in 1..Len(ret.value) : ret.value[i] \in Names
         /\ (RequestsOf(trace) # << >> /\ FailedRequest(Last(RequestsOf(trace))))
                => ret.value = << >>
    /\ Building => ENABLED Next
    /\ pc = "done" => args.package \in DOMAIN all_deps_graph

\* C1 (step part): a sub-dependency fetch that returns the empty sequence
\* leaves the graph, the root's entry included, as it was.
C1_FailedSubFetch ==
    (pc = "sub_fetch" /\ CallReturned /\ ret.value = << >>)
        => (all_deps_graph' = all_deps_graph /\ deps' = deps)

\* C1: fetch_dependencies_for_package never fails its caller, whatever the
\* registry answers on either endpoint: it returns a sequence (empty on
\* failure), build_dependency_graph always completes with the root package as
\* a key, and a failed sub-dependency fetch changes no entry of the graph.
C1_NeverFailsCaller == []C1_State /\ [][C1_FailedSubFetch]_vars

\* C1 witness: a sub-dependency fetch ended by a network exception has
\* returned the empty sequence while the graph already holds an entry besides
\* the root's.
C1_Witness ==
    /\ pc = "sub_fetch"
    /\ CallReturned
    /\ ret.value = << >>
    /\ RequestsOf(trace) # << >>
    /\ Last(RequestsOf(trace)).status = NetworkError
    /\ Cardinality(DOMAIN all_deps_graph) >= 2

ResolvesOf(events) == SelectSeq(events, LAMBDA e : e.ev = "resolve")

\* The result a request to the dependency endpoint yields by itself: the
\* filtered crate_id sequence of a well-formed 200 answer, else nothing.
YieldOf(e) ==
    IF e.status = 200 /\ e.ok THEN FilterDeps(args.filter, e.body) ELSE << >>

\* The call that has returned asked for an explicit version v, its first
\* dependency request (p, v) was answered 404, and the resolver then yielded a
\* version L (a non-empty token, not None) different from v.
C2_Case ==
    /\ CallReturned
    /\ Last(calls).version \notin { NoneVal, Latest }
    /\ DepsRequestsOf(trace) # << >>
    /\ DepsRequestsOf(trace)[1].package = Last(calls).package
    /\ DepsRequestsOf(trace)[1].version = Last(calls).version
    /\ DepsRequestsOf(trace)[1].status = 404
    /\ ResolvesOf(trace) # << >>
    /\ TruthyVersion(ResolvesOf(trace)[1].version)
    /\ ResolvesOf(trace)[1].version # Last(calls).version

ResolvesFor(events, p) == SelectSeq(events, LAMBDA e : e.ev = "resolve" /\ e.package = p)

\* Requests made by the first two calls get_latest_version(p) of the run
\* (a call that is no cache hit makes exactly one).
FirstTwoRequests(p) ==
    (IF ResolvesFor(trace, p)[1].hit THEN 0 ELSE 1)
        + (IF ResolvesFor(trace, p)[2].hit THEN 0 ELSE 1)

\* C3 as stated: whatever the registry answers, two calls of
\* get_latest_version(p) in one run make at most one metadata request in
\* total, and the second call is a cache hit.
C3_Original ==
    \A p \in Names :
        Len(ResolvesFor(trace, p)) >= 2 =>
            /\ FirstTwoRequests(p) <= 1
            /\ ResolvesFor(trace, p)[2].hit

\* The first metadata request of the run for p was answered 200 with a body
\* holding crate.newest_version.
FirstRequestDelivered(p) ==
    /\ MetaRequestsOf(trace, p) # << >>
    /\ MetaRequestsOf(trace, p)[1].status = 200
    /\ MetaRequestsOf(trace, p)[1].ok

\* C3 amended: when the first call's request is answered 200 with a well-formed
\* body, two calls of get_latest_version(p) in one run make one request in
\* total and the second is a cache hit (as is every later one); when it fails,
\* nothing is cached and the second call asks the registry again.
C3_AtMostOnceAfterSuccess ==
    \A p \in Names :
        Len(ResolvesFor(trace, p)) >= 2 =>
            IF FirstRequestDelivered(p)
            THEN /\ FirstTwoRequests(p) = 1
                 /\ ResolvesFor(trace, p)[2].hit
                 /\ Len(MetaRequestsOf(trace, p)) = 1
            ELSE /\ ~ResolvesFor(trace, p)[2].hit
                 /\ FirstTwoRequests(p) = 2

\* C3 witness: serde was resolved twice in the run, the first request
\* delivered "4.0" and the second call was a cache hit returning it.
C3_Witness ==
    /\ pc = "api"
    /\ Len(ResolvesFor(trace, serde)) >= 2
    /\ FirstRequestDelivered(serde)
    /\ ResolvesFor(trace, serde)[2].hit
    /\ ResolvesFor(trace, serde)[2].version = "4.0"

Range(seq) == { seq[i] : i \in 1..Len(seq) }

\* The root of the build in progress (or of the last one built).
Root == calls[1].package

\* The names build_dependency_graph has passed to the fetcher for their
\* sub-dependencies in this build.
Expanded == { calls[k].package : k \in 2..Len(calls) }

\* The names at positions 1..3 of the direct-dependency sequence.
EarlyNames == { direct_deps[i] : i \in { j \in 1..Len(direct_deps) : j <= 3 } }

\* d occurs among the direct dependencies, at position 4 or later only.
OnlyLate(d) == d \in Range(direct_deps) /\ d \notin EarlyNames

\* C4 as stated: sub-dependency fetches are issued only for names at positions
\* 1..3 of the direct-dependency sequence, and a name that occurs only at
\* position 4 or later is never passed to the fetcher and is no graph key.
C4_Original ==
    calls # << >> =>
        /\ Expanded \subseteq EarlyNames
        /\ \A d \in Names :
             OnlyLate(d) =>
                 /\ \A k \in 1..Len(calls) : calls[k].package # d
                 /\ d \notin DOMAIN all_deps_graph

\* C4 amended: the same for every name other than the root package; the root,
\* when it occurs only at position 4 or later of its own list, was fetched as
\* the root and is a key, but is not fetched again for sub-dependencies.
C4_OnlyFirstThreeExpanded ==
    calls # << >> =>
        /\ Expanded \subseteq EarlyNames
        /\ DOMAIN all_deps_graph \subseteq { Root } \cup EarlyNames
        /\ \A d \in Names :
             OnlyLate(d) =>
                 /\ d \notin Expanded
                 /\ d # Root =>
                      /\ \A k \in 1..Len(calls) : calls[k].package # d
                      /\ d \notin DOMAIN all_deps_graph

\* C4 witness: a finished build over four direct dependencies whose first
\* three were all expanded and whose fourth, not the root, occurs only there.
C4_Witness ==
    /\ pc = "done"
    /\ Len(direct_deps) >= 4
    /\ Len(calls) = 4
    /\ OnlyLate(direct_deps[4])
    /\ direct_deps[4] # Root
    /\ Cardinality(DOMAIN all_deps_graph) = 4

\* C5: after a build, the root is a key of the graph and, when the root's
\* direct-dependency fetch was non-empty, the root's entry is the full
\* direct-dependency sequence that fetch returned.
C5_RootEntryIsDirectDeps ==
    pc = "done" =>
        /\ Root \in DOMAIN all_deps_graph
        /\ direct_deps # << >> => all_deps_graph[Root] = direct_deps

\* C6 (state part): a build whose root fetch returned the empty sequence ends
\* with the graph {root: []}, one fetcher call (the root's) and nothing visited.
C6_State ==
    (pc = "done" /\ direct_deps = << >>) =>
        /\ all_deps_graph = [ p \in { Root } |-> << >> ]
        /\ deps = [ p \in { Root } |-> << >> ]
        /\ Len(calls) = 1
        /\ visited = {}

\* C6 (step part): the step that takes the empty result ends the build and
\* leaves VisitedSet as it was.
C6_Step ==
    (pc = "root_fetch" /\ CallReturned /\ ret.kind = "value" /\ ret.value = << >>)
        => (pc' = "done" /\ visited' = visited /\ calls' = calls /\ stack' = << >>)

\* C6: when the root's direct-dependency fetch returns the empty sequence,
\* build_dependency_graph produces exactly {root: []}, makes no
\* sub-dependency fetch and leaves VisitedSet unchanged.
C6_EmptyRootGraph == []C6_State /\ [][C6_Step]_vars

\* C6 witness: a build ended with {root: []} after the registry was asked
\* (a fetch or resolution failure, or a package without dependencies).
C6_Witness ==
    /\ pc = "done"
    /\ direct_deps = << >>
    /\ all_deps_graph = [ p \in { Root } |-> << >> ]
    /\ nreq >= 1

\* The call on top of the stack is at its first line, for a package that
\* contains the non-empty filter substring.
C7_Case ==
    /\ stack # << >>
    /\ Top.at = "enter"
    /\ args.filter # EmptyStr
    /\ Contains(args.filter, Top.package)

\* C7 (step part): such a call returns the empty sequence in its next step,
\* with no request to either endpoint and VersionCache as it was.
C7_Step ==
    C7_Case =>
        /\ stack' = Pop
        /\ ret' = Value(<< >>)
        /\ trace' = trace
        /\ nreq' = nreq
        /\ version_cache' = version_cache

\* C7 (state part): a returned call for such a package has an empty result and
\* an empty request history.
C7_State ==
    (CallReturned /\ calls # << >> /\ args.filter # EmptyStr
        /\ Contains(args.filter, Last(calls).package))
        => (ret = Value(<< >>) /\ trace = << >>)

\* C7: if the filter substring is non-empty and contained in the package name,
\* fetch_dependencies_for_package returns the empty sequence without a request
\* to either registry endpoint and without changing VersionCache, whatever the
\* requested version.
C7_FilteredPackage == []C7_State /\ [][C7_Step]_vars

\* C7 witness: the fetch of serde at version "1.0" under filter "er" has
\* returned the empty sequence with no registry request made in the build.
C7_Witness ==
    /\ CallReturned
    /\ calls = << Call(serde, "1.0") >>
    /\ args.filter = << "e", "r" >>
    /\ ret = Value(<< >>)
    /\ nreq = 0

\* Positions of body whose name the filter does not remove.
KeptPositions(body) ==
    { i \in 1..Len(body) : ~(args.filter # EmptyStr /\ Contains(args.filter, body[i])) }

\* r is body with the names at the other positions removed, order and
\* duplicates kept: its k-th entry is the entry at the k-th kept position.
IsFilteredCopy(r, body) ==
    /\ Len(r) = Cardinality(KeptPositions(body))
    /\ \A i \in KeptPositions(body) :
         r[Cardinality({ j \in KeptPositions(body) : j <= i })] = body[i]

\* The call that returns got a well-formed 200 answer to its last dependency
\* request.
C8_Case ==
    /\ ret.kind = "value"
    /\ DepsRequestsOf(trace) # << >>
    /\ Last(DepsRequestsOf(trace)).status = 200
    /\ Last(DepsRequestsOf(trace)).ok

\* C8: on a 200 answer of the dependency endpoint the returned sequence is the
\* registry's crate_id sequence without the names that contain the non-empty
\* filter substring, in the registry's order and with duplicates kept; with
\* an empty filter it is the registry's sequence.
C8_FilteredInOrder ==
    C8_Case =>
        /\ IsFilteredCopy(ret.value, Last(DepsRequestsOf(trace)).body)
        /\ args.filter = EmptyStr => ret.value = Last(DepsRequestsOf(trace)).body

\* C8 witness: under filter "er" the answer [tokio, tokio, serde, mio] came
\* back as [tokio, tokio, mio].
C8_Witness ==
    /\ C8_Case
    /\ args.filter = << "e", "r" >>
    /\ Last(DepsRequestsOf(trace)).body = << tokio, tokio, serde, mio >>
    /\ ret.value = << tokio, tokio, mio >>

\* C9 (state part): every name passed to the fetcher for its sub-dependencies
\* is in VisitedSet from the moment the call is made, and no name is passed
\* twice in one build.
C9_State ==
    /\ \A k \in 2..Len(calls) : calls[k].package \in visited
    /\ (pc = "sub_fetch" /\ stack # << >>) => stack[1].package \in visited
    /\ \A j, k \in 2..Len(calls) : j # k => calls[j].package # calls[k].package

\* C9 (step part): the step that issues a sub-dependency fetch is the one
\* that inserts the name, which was not in VisitedSet before.
C9_Step ==
    (Len(calls) >= 1 /\ Len(calls') > Len(calls))
        => /\ Last(calls').package \notin visited
           /\ Last(calls').package \in visited'
           /\ nreq' = nreq

\* C9: within one build a dependency is inserted into VisitedSet before its
\* sub-dependency fetch issues any request, and a name occurring more than
\* once among the direct dependencies is expanded at most once.
C9_VisitedBeforeFetch == []C9_State /\ [][C9_Step]_vars

\* C9 witness: a finished build over [tokio, tokio, serde, ...] of another
\* root, in which tokio and serde were each expanded once.
C9_Witness ==
    /\ pc = "done"
    /\ Len(direct_deps) >= 3
    /\ direct_deps[1] = tokio
    /\ direct_deps[2] = tokio
    /\ Len(calls) = 3
    /\ calls[2] = Call(tokio, Latest)
    /\ calls[3] = Call(serde, Latest)

\* The history records a step adds (none when the history is cleared).
NewEvents ==
    IF Len(trace') > Len(trace) THEN SubSeq(trace', Len(trace) + 1, Len(trace')) ELSE << >>

\* C10 (step part), for steps of one run (no reset, which starts the next
\* example): a cached entry stays as it is, and a call get_latest_version(p)
\* for a cached p is a hit returning the cached value, with no metadata
\* request for p.
C10_Step ==
    example' = example =>
        /\ \A p \in DOMAIN version_cache :
             p \in DOMAIN version_cache' /\ version_cache'[p] = version_cache[p]
        /\ \A i \in 1..Len(NewEvents) :
             LET e == NewEvents[i]
             IN  /\ (e.ev = "resolve" /\ e.package \in DOMAIN version_cache)
                        => (e.hit /\ e.version = version_cache[e.package])
                 /\ e.ev = "meta" => e.package \notin DOMAIN version_cache

\* C10: within one run, once VersionCache holds an entry for p it is never
\* changed or removed, and every later get_latest_version(p) returns that
\* value without a request to the metadata endpoint.
C10_CacheStable == [][C10_Step]_vars

\* C10 witness: serde was resolved twice during one fetcher call; the second
\* call was a cache hit returning the cached "1.0", and another package is
\* cached beside it.
C10_Witness ==
    /\ Len(ResolvesFor(trace, serde)) = 2
    /\ ~ResolvesFor(trace, serde)[1].hit
    /\ ResolvesFor(trace, serde)[2].hit
    /\ ResolvesFor(trace, serde)[2].version = "1.0"
    /\ serde \in DOMAIN version_cache
    /\ version_cache[serde] = "1.0"
    /\ Cardinality(DOMAIN version_cache) >= 2

\* The build that has just finished had the root and version of the build
\* before it (the filter never changes), both started from empty state, and
\* the registry answered identical requests identically.
C11_Case ==
    /\ pc = "done"
    /\ registry.scripted
    /\ example = 1
    /\ snapshot.package = args.package
    /\ snapshot.version = args.version

\* C11: building twice for the same root, version and filter, each time from
\* an empty VersionCache, VisitedSet and Graph and against a registry that
\* answers identical requests identically, yields the same graph: same keys,
\* same sequences; the fetcher calls (hence the order in which keys are
\* inserted) are the same too.
C11_SameGraphTwice ==
    C11_Case => (all_deps_graph = snapshot.graph /\ calls = snapshot.calls)

\* C11 witness: serde at "latest" was built twice and both graphs hold the
\* root and two expanded dependencies.
C11_Witness ==
    /\ C11_Case
    /\ Cardinality(DOMAIN all_deps_graph) >= 3
    /\ all_deps_graph = snapshot.graph

\* C12 (state part): a call never has more than its own frame and the frame
\* of one retry, has made at most two dependency requests, and has returned
\* the empty sequence when the second of them failed.
C12_State ==
    /\ Len(stack) <= 2
    /\ Len(DepsRequestsOf(trace)) <= 2
    /\ (CallReturned /\ Len(DepsRequestsOf(trace)) = 2
            /\ FailedRequest(DepsRequestsOf(trace)[2]))
          => ret = Value(<< >>)

\* C12 (progress part): a call that has started returns.
C12_Terminates == (stack # << >>) ~> CallReturned

\* C12: for every package, requested version, cache and registry behaviour, a
\* top-level fetch_dependencies_for_package call returns after at most one
\* recursive retry, that is after at most two dependency requests, and with
\* the empty sequence when the retried request fails too.
C12_AtMostOneRetry == []C12_State /\ C12_Terminates

\* C12 witness: both dependency requests of a call were answered 404 and the
\* call returned the empty sequence.
C12_Witness ==
    /\ CallReturned
    /\ Len(DepsRequestsOf(trace)) = 2
    /\ DepsRequestsOf(trace)[1].status = 404
    /\ DepsRequestsOf(trace)[2].status = 404
    /\ DepsRequestsOf(trace)[1].version # DepsRequestsOf(trace)[2].version
    /\ ret = Value(<< >>)

\* The call that has returned was for a package the filter does not exclude
\* and a version that is absent, the empty string or "latest".
C13_Case ==
    /\ CallReturned
    /\ ~Excluded(args.filter, Last(calls).package)
    /\ Last(calls).version \in { NoneVal, "", Latest }

\* C13: for an unfiltered package and a requested version that is absent, the
\* empty string or "latest", the fetcher calls the resolver for that package;
\* when the resolver yields None the call returns the empty sequence without
\* a dependency request, otherwise its dependency request carries the
\* resolved version.
C13_ResolvesWhenEmpty ==
    C13_Case =>
        /\ ResolvesOf(trace) # << >>
        /\ ResolvesOf(trace)[1].package = Last(calls).package
        /\ IF ResolvesOf(trace)[1].version = NoneVal
           THEN ret = Value(<< >>) /\ DepsRequestsOf(trace) = << >>
           ELSE /\ DepsRequestsOf(trace) # << >>
                /\ DepsRequestsOf(trace)[1].package = Last(calls).package
                /\ DepsRequestsOf(trace)[1].version = ResolvesOf(trace)[1].version

\* The i-th record of the call's history is a dependency request for (p, v)
\* answered 404, and the resolution that follows it yields v.
LatestEqualsRequested(i) ==
    /\ trace[i].ev = "deps"
    /\ trace[i].status = 404
    /\ \E j \in (i + 1)..Len(trace) :
         /\ trace[j].ev = "resolve"
         /\ trace[j].version = trace[i].version
         /\ \A k \in (i + 1)..(j - 1) : trace[k].ev # "resolve"

\* C18 as stated: after a 404 for (p, v) with the resolved latest version
\* equal to v, the call makes one further dependency request for (p, v)
\* before it returns.
C18_Original ==
    \A i \in 1..Len(trace) :
        (CallReturned /\ LatestEqualsRequested(i)) =>
            \E k \in (i + 1)..Len(trace) :
                /\ trace[k].ev = "deps"
                /\ trace[k].package = trace[i].package
                /\ trace[k].version = trace[i].version

\* C18: after a 404 for (p, v) with the resolved latest version equal to v,
\* the fetcher makes no further dependency request and the frame returns the
\* empty sequence at once.
C18_NoRetryWhenEqual ==
    \A i \in 1..Len(trace) :
        LatestEqualsRequested(i) =>
            /\ \A k \in (i + 1)..Len(trace) : trace[k].ev # "deps"
            /\ ret = Value(<< >>)

\* C18 witness: a call for an explicit version was answered 404, the registry
\* reported that very version as the newest, and the call returned the empty
\* sequence after its single dependency request.
C18_Witness ==
    /\ CallReturned
    /\ Last(calls).version = "1.0"
    /\ Len(DepsRequestsOf(trace)) = 1
    /\ MetaRequestsOf(trace, Last(calls).package) # << >>
    /\ \E i \in 1..Len(trace) : LatestEqualsRequested(i)
    /\ ret = Value(<< >>)

\* C14: whatever the registry answers and however many direct dependencies
\* it lists, one build calls the fetcher at most 4 times and makes at most 9
\* registry requests: at most 3 in the root's call (2 when the root is asked
\* at "latest"), at most 2 in the call for an expanded dependency.
C14_BoundedTraffic ==
    /\ Len(calls) <= 4
    /\ nreq <= 9
    /\ Len(calls) = 1 =>
         Len(RequestsOf(trace)) <= (IF calls[1].version = Latest THEN 2 ELSE 3)
    /\ Len(calls) >= 2 => Len(RequestsOf(trace)) <= 2

\* C14 witness: a finished build with four direct dependencies made 4
\* fetcher calls and 9 requests.
C14_Witness ==
    /\ pc = "done"
    /\ Len(calls) = 4
    /\ nreq = 9
    /\ Len(direct_deps) = 4

\* The names at positions 1..3 of the root's entry in self.deps.
FirstThreeOfRoot ==
    IF Root \in DOMAIN deps
    THEN { deps[Root][i] : i \in { j \in 1..Len(deps[Root]) : j <= 3 } }
    ELSE {}

\* C15: during and after a build every key of the graph other than the root
\* is one of the first 3 direct dependencies, is in visited and maps to a
\* non-empty sequence; the graph never has more than 4 keys.
C15_GraphKeys ==
    /\ calls = << >> => all_deps_graph = EmptyMap
    /\ calls # << >> =>
         \A k \in DOMAIN all_deps_graph \ { Root } :
             /\ k \in FirstThreeOfRoot
             /\ k \in visited
             /\ all_deps_graph[k] # << >>
    /\ Cardinality(DOMAIN all_deps_graph) <= 4

\* C15 witness: a finished build with four direct dependencies has 4 keys,
\* the fourth dependency is no key, and a build can end with an expanded
\* dependency that got no entry.
C15_Witness ==
    /\ pc = "done"
    /\ Len(direct_deps) = 4
    /\ Cardinality(Expanded) = 3
    /\ Root \notin Expanded
    /\ Cardinality(DOMAIN all_deps_graph) = 3
    /\ direct_deps[4] \notin DOMAIN all_deps_graph
    /\ \E d \in Expanded : d \in visited /\ d \notin DOMAIN all_deps_graph

\* C16 (state part): every cached value was delivered by a 200 answer of the
\* metadata endpoint for that package in this run.
C16_State ==
    \A p \in DOMAIN version_cache :
        /\ version_cache[p] # NoneVal
        /\ \E i \in 1..Len(trace) :
             /\ trace[i].ev = "meta"
             /\ trace[i].package = p
             /\ trace[i].status = 200
             /\ trace[i].ok
             /\ trace[i].version = version_cache[p]

\* C16 (step part): a call whose metadata request fails returns None and
\* leaves the cache as it was, without an entry for the package; a call for a
\* package the cache does not hold makes a metadata request.
C16_Step ==
    \A i \in 1..Len(NewEvents) :
        LET e == NewEvents[i]
        IN  /\ (e.ev = "meta" /\ FailedRequest(e)) =>
                 /\ version_cache' = version_cache
                 /\ e.package \notin DOMAIN version_cache'
                 /\ i < Len(NewEvents)
                 /\ NewEvents[i + 1] = ResolveEvent(e.package, NoneVal, FALSE)
            /\ (e.ev = "resolve" /\ e.package \notin DOMAIN version_cache) =>
                 /\ i > 1
                 /\ NewEvents[i - 1].ev = "meta"
                 /\ NewEvents[i - 1].package = e.package

\* C16: a failed resolution returns None and leaves the cache unchanged; the
\* cache only holds values delivered by a 200 metadata answer, a failure is
\* not cached, and a later get_latest_version for the package asks the
\* registry again.
C16_FailuresNotCached == []C16_State /\ [][C16_Step]_vars

\* C16 witness: the first resolution of serde failed, the second asked the
\* registry again and cached what it delivered.
C16_Witness ==
    /\ pc = "api"
    /\ Len(MetaRequestsOf(trace, serde)) = 2
    /\ FailedRequest(MetaRequestsOf(trace, serde)[1])
    /\ MetaRequestsOf(trace, serde)[1].status = 404
    /\ ~FailedRequest(MetaRequestsOf(trace, serde)[2])
    /\ serde \in DOMAIN version_cache
    /\ version_cache[serde] = MetaRequestsOf(trace, serde)[2].version

\* A build is about to start.
C17_Start == pc = "build"

\* C17: every root analysis, those of the batch included, starts with an
\* empty cache, visited set and graph and with nothing left of an earlier
\* build; during the build every visited name was visited by this build and
\* every cached version was asked from the registry by this build.
C17_FreshPerRoot ==
    /\ C17_Start =>
         /\ version_cache = EmptyMap
         /\ visited = {}
         /\ all_deps_graph = EmptyMap
         /\ deps = EmptyMap
         /\ direct_deps = << >>
         /\ stack = << >>
         /\ ret = NoReturn
    /\ visited = (IF calls = << >> THEN {} ELSE Expanded)
    /\ DOMAIN version_cache \subseteq { calls[k].package : k \in 1..Len(calls) }
    /\ Cardinality(DOMAIN version_cache) <= nreq

\* C17 witness: the second root of the batch (tokio) has been built; serde,
\* the root before it, was visited and resolved again by this build.
C17_Witness ==
    /\ example = 2
    /\ pc = "done"
    /\ serde \in visited
    /\ serde \in DOMAIN version_cache
    /\ serde \in DOMAIN all_deps_graph
    /\ Root = tokio

====
